---- MODULE Spec2Model ----
(***************************************************************************)
(* Trade-flow generators of the coffee repository, and the trade flow tab  *)
(* of its dashboard.                                                       *)
(*                                                                         *)
(* Each generator script loads an export table and an import table (one    *)
(* row per country, one column per year), and for every year turns the two *)
(* columns into a supply dict  export_data  and a demand dict  import_data *)
(* and allocates a trade matrix.  The scripts are modelled statement by    *)
(* statement; pc is the position in the script.                            *)
(*                                                                         *)
(* A Python dict is modelled as a sequence of <<key, value>> pairs in      *)
(* insertion order; a country is the index of its row in its table.        *)
(* The dashboard callback is modelled as one step per call.                *)
(***************************************************************************)
EXTENDS Integers, Sequences, FiniteSets, TLC

(***************************************************************************)
(* Bounds of the exploration.                                              *)
(***************************************************************************)
MaxExporters == 2
MaxImporters == 2
MaxQty == 2
MaxScale == 3

VARIABLES
    export_df,          \* year index -> column of the export table
    import_df,          \* year index -> column of the import table
    yi,                 \* index in  years  of the year being processed
    pc,                 \* position in the script
    export_data,        \* supply dict of the year
    import_data,        \* demand dict of the year
    total_import,
    trade_matrix,       \* exporter -> importer -> quantity
    exporter_totals,    \* exporter -> allocated total (a dict, as pairs)
    ex,                 \* position of the Phase 2 loop in exporter_totals
    adjustment,
    sorted_importers,
    pos,                \* position of the inner for loop in sorted_importers
    results,            \* records of the year
    error_log,          \* exporters the verification printed an ERROR for
    all_flows,          \* per-year record lists appended so far
    pass,               \* how many times Phase 2 has been started this year
    remaining_export,   \* simplified variant: exporter -> units still to place
    remaining_import,   \* simplified variant: importer -> capacity left
    exporter_order,     \* simplified variant: the sorted list a pass runs over
    combined_flows,     \* the records of all years, once concatenated
    import_data_scaled, \* final variant: the demand dict scaled to the supply
    sample,             \* final variant: the shuffled importers of a pass
    overflow,           \* final variant: positions in results of the records
                        \* appended by the overflow branch (lines 68-79)
    export_columns,     \* synthetic variant: the years the export table has
    import_columns,     \* synthetic variant: the years the import table has
    remaining_exports,  \* synthetic variant: exporter -> units still to place
    remaining_imports,  \* synthetic variant: importer -> units still to take
    active_exporters,   \* synthetic variant: the dict built on lines 53, 98
    active_importers,   \* synthetic variant: the dict built on lines 54, 99
    cur_exporter,       \* synthetic variant: exporter, the one of the iteration
    exporter_remaining,
    trade_flows,        \* synthetic variant: the records of the year
    remaining,          \* synthetic variant: what the final pass has to place
    importers_list,     \* synthetic variant: the list of lines 105-133
    trade_flow_data,    \* dashboard: the records read from the flows file
    selected,           \* dashboard: the inputs of the last callback, as
                        \* <<selected_year, selected_exporter, selected_importer>>
    exporter_names,     \* dashboard: the source side of the last diagram
    importer_names,     \* dashboard: the target side of the last diagram
    all_nodes,          \* dashboard: the node labels of the last diagram
    link_data           \* dashboard: the links of the last diagram

\* the variables only the final variant uses
finalVars == <<import_data_scaled, sample, overflow>>

\* the variables only the synthetic variant uses
syntheticVars == <<export_columns, import_columns, remaining_exports,
                   remaining_imports, active_exporters, active_importers,
                   cur_exporter, exporter_remaining, trade_flows, remaining,
                   importers_list>>

\* the variables only the dashboard uses
dashboardVars == <<trade_flow_data, selected, exporter_names, importer_names,
                   all_nodes, link_data>>

vars == <<export_df, import_df, yi, pc, export_data, import_data, total_import,
          trade_matrix, exporter_totals, ex, adjustment, sorted_importers, pos,
          results, error_log, all_flows, pass, remaining_export,
          remaining_import, exporter_order, combined_flows, finalVars,
          syntheticVars, dashboardVars>>

\* the variables only the simplified variant uses
simplifiedVars == <<remaining_export, remaining_import, exporter_order>>

\* the variables only the balanced variant uses
balancedVars == <<total_import, exporter_totals, adjustment, sorted_importers,
                  pos, pass>>

(***************************************************************************)
(* The years the module-level loop runs over: the first two of             *)
(* range(1990, 2020).                                                      *)
(***************************************************************************)
years == <<"1990", "1991">>

(***************************************************************************)
(* Dicts.                                                                  *)
(***************************************************************************)
Keys(d) == [k \in 1..Len(d) |-> d[k][1]]

Values(d) == [k \in 1..Len(d) |-> d[k][2]]

KeySet(d) == {d[k][1] : k \in 1..Len(d)}

Value(d, key) == d[CHOOSE n \in 1..Len(d) : d[n][1] = key][2]

RECURSIVE SumSeq(_)
SumSeq(s) == IF s = <<>> THEN 0 ELSE Head(s) + SumSeq(Tail(s))

(***************************************************************************)
(* Tables.  A cell of a loaded table is <<v>> for the number v and <<>>    *)
(* for NaN.  The CSV files mark a missing entry with the number            *)
(* -2147483648.                                                            *)
(***************************************************************************)
Sentinel == -2147483647 - 1

NaN == <<>>

\* export_df.replace(-2147483648, np.nan), then pd.to_numeric per column
ReplaceSentinel(table) ==
    [y \in 1..Len(table) |->
        [i \in 1..Len(table[y]) |->
            IF table[y][i] = Sentinel THEN NaN ELSE <<table[y][i]>>]]

\* pd.to_numeric per column: the import table keeps the number -2147483648
ToNumeric(table) ==
    [y \in 1..Len(table) |-> [i \in 1..Len(table[y]) |-> <<table[y][i]>>]]

\* df[['Country', year]].dropna(): the rows <<country, value>> that have a value
Dropna(column) ==
    LET rows == [i \in 1..Len(column) |-> <<i, column[i]>>]
        kept == SelectSeq(rows, LAMBDA r : r[2] # NaN)
    IN [k \in 1..Len(kept) |-> <<kept[k][1], kept[k][2][1]>>]

\* Faulty variant of DictOf: the test is row[year] >= 0.
DictOfNonNegative(column) == SelectSeq(Dropna(column), LAMBDA r : r[2] >= 0)

\* {row['Country']: int(row[year]) for ... if row[year] > 0}
DictOf(column) == SelectSeq(Dropna(column), LAMBDA r : r[2] > 0)

(***************************************************************************)
(* int(x * (a / T)) in IEEE-754 double arithmetic, for a >= 0, T >= 1 and  *)
(* x >= 1 with x * a and x * T far below 2^52.                             *)
(*                                                                         *)
(* a / T is rounded to 53 significant bits: with m the shift (negative     *)
(* when a >= 2T) such that T <= a * 2^m < 2T, the quotient is              *)
(* N / 2^(52+m), N the integer nearest                                     *)
(* to a * 2^(52+m) / T.  With r the remainder of a * 2^(52+m) by T, the    *)
(* quotient was rounded down by r / (T * 2^(52+m)) when 0 < 2r < T, and    *)
(* is exact or rounded up otherwise.  The product with x is rounded again. *)
(* When T does not divide x * a the two errors are far smaller than the    *)
(* distance of x * a / T to the next integer, and truncation gives the     *)
(* floor.  When x * a / T is an integer k, the product is k minus          *)
(* x * r / (T * 2^(52+m)); it rounds to the double below k, and truncates  *)
(* to k - 1, exactly when that deficit exceeds half the spacing            *)
(* 2^(j-53) of the doubles below k, where 2^(j-1) < k <= 2^j.              *)
(***************************************************************************)
\* 2^n, and 2^n modulo T by repeated squaring
RECURSIVE Pow2(_)
Pow2(n) == IF n = 0 THEN 1 ELSE 2 * Pow2(n - 1)

RECURSIVE PowMod2(_, _)
PowMod2(n, T) ==
    IF n = 0 THEN 1 % T
    ELSE LET h == PowMod2(n \div 2, T)
         IN (IF n % 2 = 0 THEN h * h ELSE 2 * h * h) % T

RECURSIVE LeastShift(_, _)
LeastShift(a, T) ==
    IF a >= 2 * T THEN LeastShift(a, 2 * T) - 1
    ELSE IF a >= T THEN 0
    ELSE 1 + LeastShift(2 * a, T)

RECURSIVE CeilLog2(_)
CeilLog2(k) == IF k <= 1 THEN 0 ELSE 1 + CeilLog2((k + 1) \div 2)

FloatMulDivTrunc(x, a, T) ==
    IF a = 0 THEN 0
    ELSE LET m == LeastShift(a, T)
             r == (a * PowMod2(52 + m, T)) % T
             k == (x * a) \div T
         IN IF /\ (x * a) % T = 0
               /\ r > 0
               /\ 2 * r < T
               /\ 4 * x * r > T * Pow2(CeilLog2(k) + m)
            THEN k - 1
            ELSE k


(***************************************************************************)
(* The CSV tables explored.  A column holds one integer per country;       *)
(* entries that are not positive are dropped when the dicts are built.     *)
(* The 1991 columns range over every column of at most MaxExporters        *)
(* (MaxImporters) countries with entries in 0..MaxQty, and over the named  *)
(* scenarios; the 1990 columns give every exporter the same entry and      *)
(* every importer the same entry.                                          *)
(***************************************************************************)
Columns(n) == UNION {[1..k -> 0..MaxQty] : k \in 0..n}

BoundedColumns == Columns(MaxExporters) \X Columns(MaxImporters)

ScenarioColumns ==
    { <<<<100, 50>>, <<90, 60>>>>,      \* Scenario A
      <<<<10>>, <<5, 5>>>>,             \* Scenario B
      <<<<100>>, <<40, 40>>>>,          \* Scenario C
      <<<<>>, <<10>>>>,                 \* Scenario D
      <<<<44>>, <<15, 29>>>>,           \* 44 * (15 / 44) < 15 in doubles
      <<<<49>>, <<1, 48>>>>,            \* 49 * (1 / 49) < 1 in doubles
      <<<<90, 7>>, <<7, 3>>>>,          \* 90 * (7 / 10) < 63 in doubles
      <<<<49>>, <<1, 16, 32>>>>,        \* every cell one below its floor
      <<<<2>>, <<2, 1, 1>>>>,           \* Phase 2 adds to a whole share
      <<<<7, -1, 5>>, <<0, 4, 8>>>>,    \* entries that are dropped
      <<<<Sentinel, 0, 3>>, <<-1, Sentinel, 2>>>> }   \* missing entries

FirstYearEntries == {<<0, 1>>, <<1, 1>>}

Tables ==
    { << <<[i \in 1..Len(c[1]) |-> f[1]], c[1]>>,
         <<[i \in 1..Len(c[2]) |-> f[2]], c[2]>> >> :
        f \in FirstYearEntries, c \in BoundedColumns \cup ScenarioColumns }

(***************************************************************************)
(* balanced_trade_flow_generator.py                                        *)
(***************************************************************************)
\* trade_matrix[exporter] = {importer: 0 for importer in import_data.keys()}
ZeroMatrix(exp, imp) ==
    [e \in {exp[k][1] : k \in 1..Len(exp)} |->
        [i \in {imp[k][1] : k \in 1..Len(imp)} |-> 0]]

\* Faulty variants of AllocatedAmount: nothing is allocated in Phase 1; the
\* demand is taken as an amount, not as a share.
AllocatedNothing(export_amount, import_amount, total) == 0

AllocatedAbsolute(export_amount, import_amount, total) ==
    IF export_amount <= import_amount THEN export_amount ELSE import_amount

\* import_proportion = import_amount / total_import
\* allocated_amount = int(export_amount * import_proportion)
AllocatedAmount(export_amount, import_amount, total) ==
    FloatMulDivTrunc(export_amount, import_amount, total)

\* Phase 1: the double loop over export_data.items() and import_data.items()
Phase1Matrix(exp, imp, total) ==
    [e \in {exp[k][1] : k \in 1..Len(exp)} |->
        [i \in {imp[k][1] : k \in 1..Len(imp)} |->
            AllocatedAmount(Value(exp, e), Value(imp, i), total)]]

\* sum(trade_matrix[exporter].values())
RowSum(matrix, imp, e) ==
    SumSeq([k \in 1..Len(imp) |-> matrix[e][imp[k][1]]])

ExporterTotals(matrix, exp, imp) ==
    [k \in 1..Len(exp) |-> <<exp[k][1], RowSum(matrix, imp, exp[k][1])>>]

\* Faulty variants of Adjustment: the operands swapped, the correction left
\* out, the allocated total not subtracted.
AdjustmentSwapped(target_total, allocated_total) == allocated_total - target_total

AdjustmentDropped(target_total, allocated_total) == 0

AdjustmentFromZero(target_total, allocated_total) == target_total

\* adjustment = target_total - allocated_total
Adjustment(target_total, allocated_total) == target_total - allocated_total

\* sorted(keys, key=lambda imp: row[imp], reverse=True): a stable sort, so
\* keys with equal cells keep their dict order
RECURSIVE SortedByCell(_, _)
SortedByCell(keys, row) ==
    IF keys = <<>> THEN <<>>
    ELSE LET b == CHOOSE k \in 1..Len(keys) :
                    \A j \in 1..Len(keys) :
                        \/ row[keys[j]] < row[keys[k]]
                        \/ row[keys[j]] = row[keys[k]] /\ j >= k
             rest == [j \in 1..(Len(keys) - 1) |->
                        IF j < b THEN keys[j] ELSE keys[j + 1]]
         IN <<keys[b]>> \o SortedByCell(rest, row)

\* change = 1 if adjustment > 0 else -1
Change(adj) == IF adj > 0 THEN 1 ELSE -1

\* if change < 0 and trade_matrix[exporter][importer] < abs(change): continue
Skips(change, cell) == change < 0 /\ cell < 1

\* Faulty variant of FlowRecords: the test is quantity >= 0.
FlowRecordsWithZeros(matrix, exp, imp, year) ==
    LET n == Len(imp)
    IN [c \in 1..(Len(exp) * n) |->
            LET e == exp[((c - 1) \div n) + 1][1]
                i == imp[((c - 1) % n) + 1][1]
            IN [Exporter |-> e, Importer |-> i, Year |-> year,
                Quantity |-> matrix[e][i]]]

\* the records of the cells with quantity > 0, exporter by exporter
FlowRecords(matrix, exp, imp, year) ==
    LET n == Len(imp)
        cells == [c \in 1..(Len(exp) * n) |->
                    LET e == exp[((c - 1) \div n) + 1][1]
                        i == imp[((c - 1) % n) + 1][1]
                    IN [Exporter |-> e, Importer |-> i, Year |-> year,
                        Quantity |-> matrix[e][i]]]
    IN SelectSeq(cells, LAMBDA rec : rec.Quantity > 0)

\* flow_df.groupby('Exporter')['Quantity'].sum()[e], for e in the group keys
ExportSum(recs, e) ==
    SumSeq([k \in 1..Len(recs) |->
                IF recs[k].Exporter = e THEN recs[k].Quantity ELSE 0])

ImportSum(recs, i) ==
    SumSeq([k \in 1..Len(recs) |->
                IF recs[k].Importer = i THEN recs[k].Quantity ELSE 0])

InExportSums(recs, e) == \E k \in 1..Len(recs) : recs[k].Exporter = e

\* the exporters the verification prints an ERROR for
ExportErrors(recs, exp) ==
    IF recs = <<>> THEN <<>>
    ELSE SelectSeq(Keys(exp),
            LAMBDA e : InExportSums(recs, e) /\ ExportSum(recs, e) # Value(exp, e))

\* Faulty variant of AppendFrame: the frame is appended also when empty.
AppendFrameAlways(flows, recs) == Append(flows, recs)

\* if not yearly_flows.empty: all_flows.append(yearly_flows)
AppendFrame(flows, recs) == IF recs # <<>> THEN Append(flows, recs) ELSE flows

\* total_export = sum(export_data.values())
TotalExport == SumSeq(Values(export_data))

\* the state of the script before the year loop, the tables apart, and
\* remaining_export, a dict in one variant and a number in another
Unset ==
    /\ yi = 1
    /\ pc = "start"
    /\ export_data = <<>>
    /\ import_data = <<>>
    /\ total_import = 0
    /\ trade_matrix = <<>>
    /\ exporter_totals = <<>>
    /\ ex = 1
    /\ adjustment = 0
    /\ sorted_importers = <<>>
    /\ pos = 1
    /\ results = <<>>
    /\ error_log = <<>>
    /\ all_flows = <<>>
    /\ pass = 0
    /\ remaining_import = <<>>
    /\ exporter_order = <<>>
    /\ combined_flows = <<>>
    /\ import_data_scaled = <<>>
    /\ sample = <<>>
    /\ overflow = {}
    /\ remaining_exports = <<>>
    /\ remaining_imports = <<>>
    /\ active_exporters = <<>>
    /\ active_importers = <<>>
    /\ cur_exporter = 0
    /\ exporter_remaining = 0
    /\ trade_flows = <<>>
    /\ remaining = 0
    /\ importers_list = <<>>
    /\ selected = <<0, "", "">>
    /\ exporter_names = <<>>
    /\ importer_names = <<>>
    /\ all_nodes = <<>>
    /\ link_data = <<>>

Init ==
    /\ \E t \in Tables :
            /\ export_df = ReplaceSentinel(t[1])
            /\ import_df = ToNumeric(t[2])
    /\ export_columns = {years[y] : y \in 1..Len(years)}
    /\ import_columns = {years[y] : y \in 1..Len(years)}
    /\ remaining_export = <<>>
    /\ trade_flow_data = <<>>
    /\ Unset

\* lines 28-53: the dicts of the year, the totals, the zero matrix
BuildVectors ==
    /\ pc = "start"
    /\ export_data' = DictOf(export_df[yi])
    /\ import_data' = DictOf(import_df[yi])
    /\ total_import' = SumSeq(Values(import_data'))
    /\ results' = <<>>
    /\ trade_matrix' = ZeroMatrix(export_data', import_data')
    /\ error_log' = <<>>
    /\ pass' = 0
    /\ pc' = "phase1"
    /\ UNCHANGED simplifiedVars
    /\ UNCHANGED <<combined_flows, finalVars, syntheticVars>>
    /\ UNCHANGED <<export_df, import_df, yi, exporter_totals, ex, adjustment,
                   sorted_importers, pos, all_flows>>
    /\ UNCHANGED dashboardVars

\* lines 56-63: the proportional allocation
Phase1 ==
    /\ pc = "phase1"
    /\ trade_matrix' = Phase1Matrix(export_data, import_data, total_import)
    /\ pc' = "totals"
    /\ UNCHANGED simplifiedVars
    /\ UNCHANGED <<combined_flows, finalVars, syntheticVars>>
    /\ UNCHANGED <<export_df, import_df, yi, export_data, import_data,
                   total_import, exporter_totals, ex, adjustment,
                   sorted_importers, pos, results, error_log, all_flows, pass>>
    /\ UNCHANGED dashboardVars

\* lines 67-70: exporter_totals, and the start of the loop of line 73
Totals ==
    /\ pc = "totals"
    /\ exporter_totals' = ExporterTotals(trade_matrix, export_data, import_data)
    /\ ex' = 1
    /\ pass' = pass + 1
    /\ pc' = "exporter"
    /\ UNCHANGED simplifiedVars
    /\ UNCHANGED <<combined_flows, finalVars, syntheticVars>>
    /\ UNCHANGED <<export_df, import_df, yi, export_data, import_data,
                   total_import, trade_matrix, adjustment, sorted_importers,
                   pos, results, error_log, all_flows>>
    /\ UNCHANGED dashboardVars

\* lines 73-84: the next exporter of exporter_totals.items()
NextExporter ==
    /\ pc = "exporter"
    /\ IF ex > Len(exporter_totals)
       THEN /\ pc' = "emit"
            /\ UNCHANGED <<ex, adjustment, sorted_importers>>
       ELSE LET exporter == exporter_totals[ex][1]
                allocated_total == exporter_totals[ex][2]
                target_total == Value(export_data, exporter)
            IN IF allocated_total # target_total
               THEN /\ adjustment' = Adjustment(target_total, allocated_total)
                    /\ sorted_importers' =
                          SortedByCell(Keys(import_data), trade_matrix[exporter])
                    /\ pc' = "while"
                    /\ UNCHANGED ex
               ELSE /\ ex' = ex + 1
                    /\ pc' = "exporter"
                    /\ UNCHANGED <<adjustment, sorted_importers>>
    /\ UNCHANGED simplifiedVars
    /\ UNCHANGED <<combined_flows, finalVars, syntheticVars>>
    /\ UNCHANGED <<export_df, import_df, yi, export_data, import_data,
                   total_import, trade_matrix, exporter_totals, pos, results,
                   error_log, all_flows, pass>>
    /\ UNCHANGED dashboardVars

\* line 86: while adjustment != 0
WhileTest ==
    /\ pc = "while"
    /\ IF adjustment # 0
       THEN pc' = "for" /\ pos' = 1 /\ UNCHANGED ex
       ELSE pc' = "exporter" /\ ex' = ex + 1 /\ UNCHANGED pos
    /\ UNCHANGED simplifiedVars
    /\ UNCHANGED <<combined_flows, finalVars, syntheticVars>>
    /\ UNCHANGED <<export_df, import_df, yi, export_data, import_data,
                   total_import, trade_matrix, exporter_totals, adjustment,
                   sorted_importers, results, error_log, all_flows, pass>>
    /\ UNCHANGED dashboardVars

\* lines 87-99: one turn of  for importer in sorted_importers
ForStep ==
    /\ pc = "for"
    /\ IF pos > Len(sorted_importers)
       THEN /\ pc' = "while"
            /\ UNCHANGED <<trade_matrix, adjustment, pos>>
       ELSE LET exporter == exporter_totals[ex][1]
                importer == sorted_importers[pos]
                change == Change(adjustment)
            IN IF Skips(change, trade_matrix[exporter][importer])
               THEN /\ pos' = pos + 1
                    /\ UNCHANGED <<trade_matrix, adjustment, pc>>
               ELSE /\ trade_matrix' =
                          [trade_matrix EXCEPT ![exporter][importer] = @ + change]
                    /\ adjustment' = adjustment - change
                    /\ IF adjustment' = 0
                       THEN pc' = "while" /\ UNCHANGED pos
                       ELSE pos' = pos + 1 /\ UNCHANGED pc
    /\ UNCHANGED simplifiedVars
    /\ UNCHANGED <<combined_flows, finalVars, syntheticVars>>
    /\ UNCHANGED <<export_df, import_df, yi, export_data, import_data,
                   total_import, exporter_totals, ex, sorted_importers, results,
                   error_log, all_flows, pass>>
    /\ UNCHANGED dashboardVars

\* lines 101-114: the records of the positive cells
Emit ==
    /\ pc = "emit"
    /\ results' = FlowRecords(trade_matrix, export_data, import_data, years[yi])
    /\ pc' = "verify"
    /\ UNCHANGED simplifiedVars
    /\ UNCHANGED <<combined_flows, finalVars, syntheticVars>>
    /\ UNCHANGED <<export_df, import_df, yi, export_data, import_data,
                   total_import, trade_matrix, exporter_totals, ex, adjustment,
                   sorted_importers, pos, error_log, all_flows, pass>>
    /\ UNCHANGED dashboardVars

\* lines 116-126: the verification of the export constraints, and the return
Verify ==
    /\ pc = "verify"
    /\ error_log' = ExportErrors(results, export_data)
    /\ pc' = "returned"
    /\ UNCHANGED simplifiedVars
    /\ UNCHANGED <<combined_flows, finalVars, syntheticVars>>
    /\ UNCHANGED <<export_df, import_df, yi, export_data, import_data,
                   total_import, trade_matrix, exporter_totals, ex, adjustment,
                   sorted_importers, pos, results, all_flows, pass>>
    /\ UNCHANGED dashboardVars

\* lines 132-135: the module-level loop appends a non-empty frame
YearLoop ==
    /\ pc = "returned"
    /\ all_flows' = AppendFrame(all_flows, results)
    /\ IF yi < Len(years)
       THEN yi' = yi + 1 /\ pc' = "start"
       ELSE yi' = yi /\ pc' = "finished"
    /\ UNCHANGED simplifiedVars
    /\ UNCHANGED <<combined_flows, finalVars, syntheticVars>>
    /\ UNCHANGED <<export_df, import_df, export_data, import_data, total_import,
                   trade_matrix, exporter_totals, ex, adjustment,
                   sorted_importers, pos, results, error_log, pass>>
    /\ UNCHANGED dashboardVars

\* Faulty variant of Concat: the frames are joined last year first.
RECURSIVE ConcatReversed(_)
ConcatReversed(frames) ==
    IF frames = <<>> THEN <<>>
    ELSE ConcatReversed(Tail(frames)) \o Head(frames)

\* pd.concat(all_flows, ignore_index=True)
RECURSIVE Concat(_)
Concat(frames) ==
    IF frames = <<>> THEN <<>> ELSE Head(frames) \o Concat(Tail(frames))

\* lines 138-143: the frames of the years are combined when there is one
Combine ==
    /\ pc = "finished"
    /\ combined_flows' = IF all_flows # <<>> THEN Concat(all_flows)
                                              ELSE combined_flows
    /\ pc' = "combined"
    /\ UNCHANGED simplifiedVars
    /\ UNCHANGED <<finalVars, syntheticVars>>
    /\ UNCHANGED <<export_df, import_df, yi, export_data, import_data,
                   total_import, trade_matrix, exporter_totals, ex, adjustment,
                   sorted_importers, pos, results, error_log, all_flows, pass>>
    /\ UNCHANGED dashboardVars

Next ==
    \/ BuildVectors
    \/ Phase1
    \/ Totals
    \/ NextExporter
    \/ WhileTest
    \/ ForStep
    \/ Emit
    \/ Verify
    \/ YearLoop
    \/ Combine

Spec == Init /\ [][Next]_vars

\* the script runs to its end: no statement waits for anything
FairSpec == Spec /\ WF_vars(Next)

(***************************************************************************)
(* Phase 2 applied a second time to the matrix it has corrected: lines     *)
(* 67-99 are entered again, once, before the records are emitted.          *)
(***************************************************************************)
Reapply ==
    /\ pc = "emit"
    /\ pass = 1
    /\ pc' = "totals"
    /\ UNCHANGED simplifiedVars
    /\ UNCHANGED <<combined_flows, finalVars, syntheticVars>>
    /\ UNCHANGED <<export_df, import_df, yi, export_data, import_data,
                   total_import, trade_matrix, exporter_totals, ex, adjustment,
                   sorted_importers, pos, results, error_log, all_flows, pass>>
    /\ UNCHANGED dashboardVars

TwiceNext == Next \/ Reapply

TwiceSpec == Init /\ [][TwiceNext]_vars

(***************************************************************************)
(* generate_data_for_year as a function of the two dicts of the year.      *)
(***************************************************************************)
\* lines 86-99 for one exporter: the while loop and its for loop, from
\* position p of the sorted importers, on the exporter's row of the matrix
RECURSIVE AdjustRow(_, _, _, _)
AdjustRow(row, order, p, adj) ==
    IF adj = 0 THEN row
    ELSE IF p > Len(order) THEN AdjustRow(row, order, 1, adj)
    ELSE IF Skips(Change(adj), row[order[p]])
         THEN AdjustRow(row, order, p + 1, adj)
         ELSE AdjustRow([row EXCEPT ![order[p]] = @ + Change(adj)], order,
                        p + 1, adj - Change(adj))

\* lines 56-99: Phase 1, then Phase 2 on every row whose total is off
AdjustedMatrix(exp, imp) ==
    LET phase1 == Phase1Matrix(exp, imp, SumSeq(Values(imp)))
    IN [e \in KeySet(exp) |->
            IF RowSum(phase1, imp, e) # Value(exp, e)
            THEN AdjustRow(phase1[e], SortedByCell(Keys(imp), phase1[e]), 1,
                           Adjustment(Value(exp, e), RowSum(phase1, imp, e)))
            ELSE phase1[e]]

\* lines 28-126: the records generate_data_for_year returns for a year
YearRecords(y) ==
    LET exp == DictOf(export_df[y])
        imp == DictOf(import_df[y])
    IN FlowRecords(AdjustedMatrix(exp, imp), exp, imp, years[y])

(***************************************************************************)
(* New Folder With Items/simplified_trade_flow_generator.py                *)
(***************************************************************************)
\* Faulty variant of Min: the larger of the two.
Larger(a, b) == IF a <= b THEN b ELSE a

Min(a, b) == IF a <= b THEN a ELSE b

\* lines 44-50: every cell starts at 1
OnesMatrix(exp, imp) == [e \in KeySet(exp) |-> [i \in KeySet(imp) |-> 1]]

\* lines 53-60: the amounts left once the initial cells are taken off
SeededRemainingExport(exp, imp) ==
    [e \in KeySet(exp) |-> Value(exp, e) - Len(imp)]

SeededRemainingImport(exp, imp) ==
    [i \in KeySet(imp) |-> Value(imp, i) - Len(exp)]

\* sum(max(0, val) for val in remaining_import.values())
TotalRemainingImport(imp, rimp) ==
    SumSeq([k \in 1..Len(imp) |->
                IF rimp[imp[k][1]] > 0 THEN rimp[imp[k][1]] ELSE 0])

\* share = remaining_import[importer] / total_remaining_import
\* allocation = min(int(remaining_export[exporter] * share), remaining_import[importer])
ProportionalAllocation(rem_export, rem_import, total) ==
    Min(FloatMulDivTrunc(rem_export, rem_import, total), rem_import)

\* lines 72-87: the loop over the importers sorted by remaining capacity, from
\* position p of the sorted list; E is remaining_export[exporter], row is
\* trade_matrix[exporter]
RECURSIVE ProportionalLoop(_, _, _, _, _, _)
ProportionalLoop(order, p, E, rimp, row, total) ==
    IF p > Len(order) THEN [E |-> E, rimp |-> rimp, row |-> row]
    ELSE LET importer == order[p]
         IN IF rimp[importer] <= 0
            THEN ProportionalLoop(order, p + 1, E, rimp, row, total)
            ELSE LET allocation == ProportionalAllocation(E, rimp[importer], total)
                     E2 == IF allocation > 0 THEN E - allocation ELSE E
                     rimp2 == IF allocation > 0
                              THEN [rimp EXCEPT ![importer] = @ - allocation]
                              ELSE rimp
                     row2 == IF allocation > 0
                             THEN [row EXCEPT ![importer] = @ + allocation]
                             ELSE row
                 IN IF E2 <= 0
                    THEN [E |-> E2, rimp |-> rimp2, row |-> row2]
                    ELSE ProportionalLoop(order, p + 1, E2, rimp2, row2, total)

\* [imp for imp, val in remaining_import.items() if val > 0]
ImportersWithCapacity(imp, rimp) ==
    SelectSeq(Keys(imp), LAMBDA i : rimp[i] > 0)

\* max(import_data.items(), key=lambda x: x[1])[0]: the first key of the
\* largest value
LargestImporter(imp) ==
    imp[CHOOSE k \in 1..Len(imp) :
            \A j \in 1..Len(imp) :
                imp[j][2] < imp[k][2] \/ (imp[j][2] = imp[k][2] /\ j >= k)][1]

\* list.remove of the element at position p
RemoveAt(list, p) ==
    [j \in 1..(Len(list) - 1) |-> IF j < p THEN list[j] ELSE list[j + 1]]

\* lines 105-116: one run of  for importer in importers_with_capacity  from
\* position p; the list iterator goes on to position p + 1 of the list as it
\* is after a removal
RECURSIVE CapacityFor(_, _, _, _, _)
CapacityFor(list, p, E, rimp, row) ==
    IF p > Len(list) THEN [list |-> list, E |-> E, rimp |-> rimp, row |-> row]
    ELSE LET importer == list[p]
             allocation == Min(E, rimp[importer])
             E2 == IF allocation > 0 THEN E - allocation ELSE E
             rimp2 == IF allocation > 0
                      THEN [rimp EXCEPT ![importer] = @ - allocation]
                      ELSE rimp
             row2 == IF allocation > 0
                     THEN [row EXCEPT ![importer] = @ + allocation]
                     ELSE row
             list2 == IF allocation > 0 /\ rimp2[importer] <= 0
                      THEN RemoveAt(list, p)
                      ELSE list
         IN IF E2 <= 0
            THEN [list |-> list2, E |-> E2, rimp |-> rimp2, row |-> row2]
            ELSE CapacityFor(list2, p + 1, E2, rimp2, row2)

\* line 104: while remaining_export[exporter] > 0 and importers_with_capacity
RECURSIVE CapacityWhile(_, _, _, _)
CapacityWhile(list, E, rimp, row) ==
    IF E > 0 /\ list # <<>>
    THEN LET r == CapacityFor(list, 1, E, rimp, row)
         IN CapacityWhile(r.list, r.E, r.rimp, r.row)
    ELSE [E |-> E, rimp |-> rimp, row |-> row]

ImportErrors(recs, imp) ==
    IF recs = <<>> THEN <<>>
    ELSE SelectSeq(Keys(imp),
            LAMBDA i : (\E k \in 1..Len(recs) : recs[k].Importer = i)
                       /\ ImportSum(recs, i) # Value(imp, i))

\* lines 28-60: the dicts, the matrix of ones, the remaining amounts, and the
\* sorted exporter list of the loop of line 64
SimplifiedSeed ==
    /\ pc = "start"
    /\ export_data' = DictOf(export_df[yi])
    /\ import_data' = DictOf(import_df[yi])
    /\ results' = <<>>
    /\ error_log' = <<>>
    /\ trade_matrix' = OnesMatrix(export_data', import_data')
    /\ remaining_export' = SeededRemainingExport(export_data', import_data')
    /\ remaining_import' = SeededRemainingImport(export_data', import_data')
    /\ exporter_order' = SortedByCell(Keys(export_data'), remaining_export')
    /\ ex' = 1
    /\ pc' = "s_proportional"
    /\ UNCHANGED balancedVars
    /\ UNCHANGED <<combined_flows, finalVars, syntheticVars>>
    /\ UNCHANGED <<export_df, import_df, yi, all_flows>>
    /\ UNCHANGED dashboardVars

\* line 90: the sorted exporter list of the second loop
EnterLeftover ==
    /\ exporter_order' = SortedByCell(Keys(export_data), remaining_export)
    /\ ex' = 1
    /\ pc' = "s_leftover"

\* lines 64-87: one exporter of the proportional loop
ProportionalStep ==
    /\ pc = "s_proportional"
    /\ IF ex > Len(exporter_order)
       THEN EnterLeftover
            /\ UNCHANGED <<trade_matrix, remaining_export, remaining_import>>
       ELSE LET exporter == exporter_order[ex]
                total == TotalRemainingImport(import_data, remaining_import)
            IN IF remaining_export[exporter] <= 0
               THEN /\ ex' = ex + 1
                    /\ UNCHANGED <<pc, exporter_order, trade_matrix,
                                   remaining_export, remaining_import>>
               ELSE IF total <= 0
               THEN EnterLeftover
                    /\ UNCHANGED <<trade_matrix, remaining_export,
                                   remaining_import>>
               ELSE LET r == ProportionalLoop(
                                SortedByCell(Keys(import_data), remaining_import),
                                1, remaining_export[exporter], remaining_import,
                                trade_matrix[exporter], total)
                    IN /\ trade_matrix' = [trade_matrix EXCEPT ![exporter] = r.row]
                       /\ remaining_export' =
                             [remaining_export EXCEPT ![exporter] = r.E]
                       /\ remaining_import' = r.rimp
                       /\ ex' = ex + 1
                       /\ UNCHANGED <<pc, exporter_order>>
    /\ UNCHANGED balancedVars
    /\ UNCHANGED <<combined_flows, finalVars, syntheticVars>>
    /\ UNCHANGED <<export_df, import_df, yi, export_data, import_data, results,
                   error_log, all_flows>>
    /\ UNCHANGED dashboardVars

\* lines 90-116: one exporter of the leftover loop; max() of an empty
\* import_data raises ValueError
LeftoverStep ==
    /\ pc = "s_leftover"
    /\ IF ex > Len(exporter_order)
       THEN /\ pc' = "s_emit"
            /\ UNCHANGED <<ex, trade_matrix, remaining_export, remaining_import>>
       ELSE LET exporter == exporter_order[ex]
                capacity == ImportersWithCapacity(import_data, remaining_import)
            IN IF remaining_export[exporter] <= 0
               THEN /\ ex' = ex + 1
                    /\ UNCHANGED <<pc, trade_matrix, remaining_export,
                                   remaining_import>>
               ELSE IF capacity = <<>>
               THEN IF import_data = <<>>
                    THEN /\ pc' = "raised"
                         /\ UNCHANGED <<ex, trade_matrix, remaining_export,
                                        remaining_import>>
                    ELSE /\ trade_matrix' =
                               [trade_matrix EXCEPT
                                   ![exporter][LargestImporter(import_data)] =
                                       @ + remaining_export[exporter]]
                         /\ remaining_export' =
                               [remaining_export EXCEPT ![exporter] = 0]
                         /\ ex' = ex + 1
                         /\ UNCHANGED <<pc, remaining_import>>
               ELSE LET r == CapacityWhile(capacity, remaining_export[exporter],
                                           remaining_import, trade_matrix[exporter])
                    IN /\ trade_matrix' = [trade_matrix EXCEPT ![exporter] = r.row]
                       /\ remaining_export' =
                             [remaining_export EXCEPT ![exporter] = r.E]
                       /\ remaining_import' = r.rimp
                       /\ ex' = ex + 1
                       /\ UNCHANGED pc
    /\ UNCHANGED balancedVars
    /\ UNCHANGED <<combined_flows, finalVars, syntheticVars>>
    /\ UNCHANGED <<export_df, import_df, yi, export_data, import_data, results,
                   error_log, all_flows, exporter_order>>
    /\ UNCHANGED dashboardVars

\* lines 119-131: the records of the positive cells
SimplifiedEmit ==
    /\ pc = "s_emit"
    /\ results' = FlowRecords(trade_matrix, export_data, import_data, years[yi])
    /\ pc' = "s_verify"
    /\ UNCHANGED balancedVars
    /\ UNCHANGED <<combined_flows, finalVars, syntheticVars>>
    /\ UNCHANGED simplifiedVars
    /\ UNCHANGED <<export_df, import_df, yi, export_data, import_data,
                   trade_matrix, ex, error_log, all_flows>>
    /\ UNCHANGED dashboardVars

\* lines 134-160: the warnings of the two verifications, and the return
SimplifiedVerify ==
    /\ pc = "s_verify"
    /\ error_log' = [export |-> ExportErrors(results, export_data),
                     import |-> ImportErrors(results, import_data)]
    /\ pc' = "s_returned"
    /\ UNCHANGED balancedVars
    /\ UNCHANGED <<combined_flows, finalVars, syntheticVars>>
    /\ UNCHANGED simplifiedVars
    /\ UNCHANGED <<export_df, import_df, yi, export_data, import_data,
                   trade_matrix, ex, results, all_flows>>
    /\ UNCHANGED dashboardVars

\* lines 168-171: the module-level loop
SimplifiedYearLoop ==
    /\ pc = "s_returned"
    /\ all_flows' = AppendFrame(all_flows, results)
    /\ IF yi < Len(years)
       THEN yi' = yi + 1 /\ pc' = "start"
       ELSE yi' = yi /\ pc' = "finished"
    /\ UNCHANGED balancedVars
    /\ UNCHANGED <<combined_flows, finalVars, syntheticVars>>
    /\ UNCHANGED simplifiedVars
    /\ UNCHANGED <<export_df, import_df, export_data, import_data,
                   trade_matrix, ex, results, error_log>>
    /\ UNCHANGED dashboardVars

SimplifiedNext ==
    \/ SimplifiedSeed
    \/ ProportionalStep
    \/ LeftoverStep
    \/ SimplifiedEmit
    \/ SimplifiedVerify
    \/ SimplifiedYearLoop

SimplifiedSpec == Init /\ [][SimplifiedNext]_vars

(***************************************************************************)
(* New Folder With Items/final_trade_flow_generator.py                     *)
(*                                                                         *)
(* The calls of the random module are choices: random.sample is any order  *)
(* of the list, random.choice any element, and the two random.randint      *)
(* calls behind random.random() < 0.7 any integer of either range.         *)
(***************************************************************************)
Max(a, b) == IF a >= b THEN a ELSE b

\* int(v * scale_factor), scale_factor = total_export / total_import
ScaledImports(imp, total_export, total) ==
    [k \in 1..Len(imp) |->
        <<imp[k][1], FloatMulDivTrunc(imp[k][2], total_export, total)>>]

\* Faulty variant of DemandAfterScaling: line 50 assigns to import_data.
DemandOverwritten(imp, scaled) == scaled

\* line 50 binds the scaled dict to import_data_scaled: import_data is the
\* dict it was
DemandAfterScaling(imp, scaled) == imp

\* Faulty variant of AvailableImporters: the test is v > 1.
AvailableImportersAboveOne(imp, rimp) ==
    SelectSeq(Keys(imp), LAMBDA i : rimp[i] > 1)

\* {k: v for k, v in remaining_import.items() if v > 0}, as its key list
AvailableImporters(imp, rimp) == SelectSeq(Keys(imp), LAMBDA i : rimp[i] > 0)

\* random.sample(list, len(list)): the orders of the list
Shuffles(list) ==
    {[p \in 1..Len(list) |-> list[f[p]]] :
        f \in {g \in [1..Len(list) -> 1..Len(list)] :
                    \A a, b \in 1..Len(list) : g[a] = g[b] => a = b}}

\* Faulty variant of Assignments: the draws start at 0.
AssignmentsFromZero(max_assignment) == 0..max_assignment

\* Faulty variant of Assignments: the draws go up to max_assignment + 1.
AssignmentsAboveMax(max_assignment) == 1..(max_assignment + 1)

\* lines 90-97: the chunk sizes the random draws can give; int(m * 0.5) is
\* m \div 2 and int(m * 0.3) is (3 * m) \div 10
Assignments(max_assignment) ==
    IF max_assignment = 1 THEN {1}
    ELSE (Max(1, max_assignment \div 2)..max_assignment)
            \cup (1..Max(1, (3 * max_assignment) \div 10))

\* Faulty variant of FlowRecord: the record carries one unit, whatever the
\* chunk.
FlowRecordUnit(e, i, year, quantity) ==
    [Exporter |-> e, Importer |-> i, Year |-> year, Quantity |-> 1]

\* lines 72-77, 99-104
FlowRecord(e, i, year, quantity) ==
    [Exporter |-> e, Importer |-> i, Year |-> year, Quantity |-> quantity]

\* lines 158-167: the negative adjustment spread over the exporter's rows,
\* from the first on, none taken below 0
RECURSIVE Distribute(_, _, _, _)
Distribute(frame, entries, p, remaining_adjustment) ==
    IF p > Len(entries) THEN frame
    ELSE LET idx == entries[p]
             current_quantity == frame[idx].Quantity
             change == Max(-current_quantity, remaining_adjustment)
         IN IF current_quantity > 0
            THEN LET changed == [frame EXCEPT
                                    ![idx].Quantity = current_quantity + change]
                 IN IF remaining_adjustment - change = 0 THEN changed
                    ELSE Distribute(changed, entries, p + 1,
                                    remaining_adjustment - change)
            ELSE Distribute(frame, entries, p + 1, remaining_adjustment)

\* lines 122-167 for one exporter: the frames the pass can leave, one for
\* each outcome of random.choice
Adjusted(frame, e, expected_amount, imp, year) ==
    LET missing == ~ InExportSums(frame, e)
        flow_df == IF missing
                   THEN Append(frame, FlowRecord(e, Keys(imp)[1], year, 0))
                   ELSE frame
        export_sum == IF missing THEN 0 ELSE ExportSum(frame, e)
        exporter_entries ==
            SelectSeq([k \in 1..Len(flow_df) |-> k],
                      LAMBDA k : flow_df[k].Exporter = e)
        adj == expected_amount - export_sum
    IN IF export_sum = expected_amount \/ exporter_entries = <<>>
       THEN {flow_df}
       ELSE IF adj > 0
            THEN {Append(flow_df, FlowRecord(e, i, year, adj)) :
                    i \in KeySet(imp)}
            ELSE LET idx == exporter_entries[1]
                     current_quantity == flow_df[idx].Quantity
                 IN IF current_quantity + adj > 0
                    THEN {[flow_df EXCEPT
                              ![idx].Quantity = current_quantity + adj]}
                    ELSE {Distribute(flow_df, exporter_entries, 1, adj)}

\* lines 118-133: an exporter without records, or whose records do not sum
\* to its supply
Mismatched(recs, exp) ==
    {e \in KeySet(exp) :
        ~ InExportSums(recs, e) \/ ExportSum(recs, e) # Value(exp, e)}

(***************************************************************************)
(* The tables the final variant is explored on: one exporter against every *)
(* import column, and pairs of exporters sharing importers.  The record    *)
(* list holds one record per chunk, so the number of outcomes grows with   *)
(* every unit of supply.                                                   *)
(***************************************************************************)
FinalColumns ==
    (Columns(1) \X Columns(MaxImporters))
        \cup { <<<<2, 1>>, <<1, 1>>>>,
               <<<<1, 3>>, <<2>>>>,
               <<<<4>>, <<2, 1>>>>,
               <<<<Sentinel, 2>>, <<0, 3>>>> }

FinalTables ==
    { << <<[i \in 1..Len(c[1]) |-> f[1]], c[1]>>,
         <<[i \in 1..Len(c[2]) |-> f[2]], c[2]>> >> :
        f \in FirstYearEntries, c \in FinalColumns }

FinalInit ==
    /\ \E t \in FinalTables :
            /\ export_df = ReplaceSentinel(t[1])
            /\ import_df = ToNumeric(t[2])
    /\ export_columns = {years[y] : y \in 1..Len(years)}
    /\ import_columns = {years[y] : y \in 1..Len(years)}
    /\ remaining_export = 0
    /\ trade_flow_data = <<>>
    /\ Unset

\* lines 28-50: the dicts, the empty record list, the totals and the scaled
\* demand; total_export / total_import raises ZeroDivisionError when the
\* demand dict is empty and the supply dict is not
FinalBuild ==
    /\ pc = "start"
    /\ LET exp == DictOf(export_df[yi])
           imp == DictOf(import_df[yi])
           total_export == SumSeq(Values(exp))
           total == SumSeq(Values(imp))
       IN /\ export_data' = exp
          /\ results' = <<>>
          /\ overflow' = {}
          /\ ex' = 1
          /\ IF total # total_export
             THEN IF total = 0
                  THEN /\ pc' = "raised"
                       /\ import_data' = imp
                       /\ import_data_scaled' = <<>>
                  ELSE /\ pc' = "f_exporter"
                       /\ import_data_scaled' =
                             ScaledImports(imp, total_export, total)
                       /\ import_data' =
                             DemandAfterScaling(imp, import_data_scaled')
             ELSE /\ pc' = "f_exporter"
                  /\ import_data' = imp
                  /\ import_data_scaled' = <<>>
    /\ UNCHANGED balancedVars
    /\ UNCHANGED syntheticVars
    /\ UNCHANGED <<export_df, import_df, yi, trade_matrix, error_log,
                   all_flows, remaining_export, remaining_import,
                   exporter_order, combined_flows, sample>>
    /\ UNCHANGED dashboardVars

\* lines 53-61: the next exporter, its amount to place and its own copy of
\* the demand dict
FinalNextExporter ==
    /\ pc = "f_exporter"
    /\ IF ex > Len(export_data)
       THEN /\ pc' = "f_verify"
            /\ UNCHANGED <<remaining_export, remaining_import>>
       ELSE /\ remaining_export' = export_data[ex][2]
            /\ remaining_import' =
                  [i \in KeySet(import_data) |-> Value(import_data, i)]
            /\ pc' = "f_while"
    /\ UNCHANGED balancedVars
    /\ UNCHANGED syntheticVars
    /\ UNCHANGED <<export_df, import_df, yi, export_data, import_data,
                   trade_matrix, ex, results, error_log, all_flows,
                   exporter_order, combined_flows, finalVars>>
    /\ UNCHANGED dashboardVars

\* lines 64-82: the test of the while loop, the overflow record when no
\* importer has capacity left, else the shuffled importers of the pass
FinalWhile ==
    /\ pc = "f_while"
    /\ IF remaining_export > 0
       THEN LET available_importers ==
                    AvailableImporters(import_data, remaining_import)
            IN IF available_importers = <<>>
               THEN \E importer \in KeySet(import_data) :
                        /\ results' = Append(results,
                                FlowRecord(export_data[ex][1], importer,
                                           years[yi], remaining_export))
                        /\ overflow' = overflow \cup {Len(results) + 1}
                        /\ remaining_export' = 0
                        /\ ex' = ex + 1
                        /\ pc' = "f_exporter"
                        /\ UNCHANGED <<sample, pos>>
               ELSE \E order \in Shuffles(available_importers) :
                        /\ sample' = order
                        /\ pos' = 1
                        /\ pc' = "f_for"
                        /\ UNCHANGED <<results, overflow, remaining_export, ex>>
       ELSE /\ ex' = ex + 1
            /\ pc' = "f_exporter"
            /\ UNCHANGED <<results, overflow, remaining_export, sample, pos>>
    /\ UNCHANGED syntheticVars
    /\ UNCHANGED <<export_df, import_df, yi, export_data, import_data,
                   total_import, trade_matrix, exporter_totals, adjustment,
                   sorted_importers, error_log, all_flows, pass,
                   remaining_import, exporter_order, combined_flows,
                   import_data_scaled>>
    /\ UNCHANGED dashboardVars

\* lines 82-110: one importer of the shuffled list
FinalFor ==
    /\ pc = "f_for"
    /\ IF pos > Len(sample)
       THEN /\ pc' = "f_while"
            /\ UNCHANGED <<results, remaining_export, remaining_import, pos>>
       ELSE LET importer == sample[pos]
                max_assignment ==
                    Min(remaining_export, remaining_import[importer])
            IN IF max_assignment <= 0
               THEN /\ pos' = pos + 1
                    /\ UNCHANGED <<results, remaining_export,
                                   remaining_import, pc>>
               ELSE \E assignment \in Assignments(max_assignment) :
                        /\ results' = Append(results,
                                FlowRecord(export_data[ex][1], importer,
                                           years[yi], assignment))
                        /\ remaining_export' = remaining_export - assignment
                        /\ remaining_import' =
                              [remaining_import EXCEPT
                                  ![importer] = @ - assignment]
                        /\ IF remaining_export' <= 0
                           THEN pc' = "f_while" /\ UNCHANGED pos
                           ELSE pos' = pos + 1 /\ UNCHANGED pc
    /\ UNCHANGED syntheticVars
    /\ UNCHANGED <<export_df, import_df, yi, export_data, import_data,
                   total_import, trade_matrix, exporter_totals, ex, adjustment,
                   sorted_importers, error_log, all_flows, pass,
                   exporter_order, combined_flows, finalVars>>
    /\ UNCHANGED dashboardVars

\* lines 113-118: the frame of the records; an empty frame is returned as it
\* is, the exporters of any other are gone over one by one
FinalVerify ==
    /\ pc = "f_verify"
    /\ IF results # <<>>
       THEN ex' = 1 /\ pc' = "f_check"
       ELSE ex' = ex /\ pc' = "f_returned"
    /\ UNCHANGED balancedVars
    /\ UNCHANGED simplifiedVars
    /\ UNCHANGED syntheticVars
    /\ UNCHANGED <<export_df, import_df, yi, export_data, import_data,
                   trade_matrix, results, error_log, all_flows,
                   combined_flows, finalVars>>
    /\ UNCHANGED dashboardVars

\* lines 121-167: one exporter of the verification loop.  export_sums is
\* taken once, on line 118; the rows of an exporter change in its own pass
\* only, so its sum there is the sum over the frame as it is then.
FinalCheck ==
    /\ pc = "f_check"
    /\ IF ex > Len(export_data)
       THEN /\ pc' = "f_returned"
            /\ UNCHANGED <<results, ex>>
       ELSE /\ results' \in Adjusted(results, export_data[ex][1],
                                     export_data[ex][2], import_data,
                                     years[yi])
            /\ ex' = ex + 1
            /\ UNCHANGED pc
    /\ UNCHANGED balancedVars
    /\ UNCHANGED simplifiedVars
    /\ UNCHANGED syntheticVars
    /\ UNCHANGED <<export_df, import_df, yi, export_data, import_data,
                   trade_matrix, error_log, all_flows, combined_flows,
                   finalVars>>
    /\ UNCHANGED dashboardVars

\* lines 176-179: the module-level loop
FinalYearLoop ==
    /\ pc = "f_returned"
    /\ all_flows' = AppendFrame(all_flows, results)
    /\ IF yi < Len(years)
       THEN yi' = yi + 1 /\ pc' = "start"
       ELSE yi' = yi /\ pc' = "finished"
    /\ UNCHANGED balancedVars
    /\ UNCHANGED simplifiedVars
    /\ UNCHANGED syntheticVars
    /\ UNCHANGED <<export_df, import_df, export_data, import_data,
                   trade_matrix, ex, results, error_log, combined_flows,
                   finalVars>>
    /\ UNCHANGED dashboardVars

FinalNext ==
    \/ FinalBuild
    \/ FinalNextExporter
    \/ FinalWhile
    \/ FinalFor
    \/ FinalVerify
    \/ FinalCheck
    \/ FinalYearLoop

FinalSpec == FinalInit /\ [][FinalNext]_vars

\* inside the distribution loop the script runs on: the test of the while
\* loop and the body of the for loop are executed when they are reached
FairFinalSpec == FinalSpec /\ WF_vars(FinalWhile) /\ WF_vars(FinalFor)

(***************************************************************************)
(* New Folder With Items/synthetic_trade_flow_generator.py                 *)
(*                                                                         *)
(* The quantities of lines 73-83 are doubles.  They are computed here as   *)
(* exact fractions over total_import_need: for exporter_remaining <= 6 or  *)
(* total_import_need <= 11 every comparison and every rounding of the      *)
(* doubles has the outcome of the exact value (the first difference is at  *)
(* exporter_remaining 7, importer_remaining 8, total_import_need 12), and  *)
(* the tables explored stay within these values.                           *)
(***************************************************************************)
\* lines 29-34, 47-48: the rows that have a value other than -2147483648
SyntheticDict(column) == SelectSeq(Dropna(column), LAMBDA r : r[2] # Sentinel)

\* Faulty variant of Active: the test is v > 1.
ActiveAboveOne(d) == SelectSeq(d, LAMBDA r : r[2] > 1)

\* {k: v for k, v in d.items() if v > 0}
Active(d) == SelectSeq(d, LAMBDA r : r[2] > 0)

\* d[key] = v
SetValue(d, key, v) ==
    [k \in 1..Len(d) |-> IF d[k][1] = key THEN <<key, v>> ELSE d[k]]

\* d.pop(key), list.remove(key)
Pop(d, key) == SelectSeq(d, LAMBDA r : r[1] # key)

Remove(list, key) == SelectSeq(list, LAMBDA x : x # key)

\* max(active_exporters.items(), key=lambda x: x[1])[0]: the first key of
\* the largest value
LargestExporter(d) ==
    d[CHOOSE k \in 1..Len(d) :
            \A j \in 1..Len(d) :
                d[j][2] < d[k][2] \/ (d[j][2] = d[k][2] /\ j >= k)][1]

\* int(round(n / d)): Python rounds a half to the even neighbour
RoundHalfEven(n, d) ==
    LET q == n \div d
        rest == n % d
    IN IF 2 * rest > d THEN q + 1
       ELSE IF 2 * rest < d THEN q
       ELSE IF q % 2 = 0 THEN q ELSE q + 1

\* Faulty variant of AssignedQuantityInt: all the exporter has left.
AssignedAllLeft(exp_remaining, imp_remaining, total_import_need) ==
    exp_remaining

\* lines 73-87: assigned_quantity_int for an exporter and an importer that
\* both have a positive amount left; ideal and capped are ideal_quantity and
\* the assigned_quantity of line 83, times total_import_need
AssignedQuantityInt(exp_remaining, imp_remaining, total_import_need) ==
    LET ideal == Min(exp_remaining * imp_remaining,
                     imp_remaining * total_import_need)
        capped == Max(0, Min(Min(exp_remaining, imp_remaining)
                                * total_import_need, ideal))
    IN IF \/ 2 * exp_remaining * total_import_need <= 3 * ideal
          \/ 2 * imp_remaining * total_import_need <= 3 * ideal
       THEN Min(exp_remaining, imp_remaining)
       ELSE RoundHalfEven(capped, total_import_need)

\* lines 89, 113, 128: a row of trade_flows
FlowRow(e, i, year, quantity) ==
    [Exporter |-> e, Importer |-> i, Year |-> year, Quantity |-> quantity]

\* Faulty variant of AppendYearly: the result is appended also when None.
AppendYearlyAlways(flows, yearly_flows) ==
    Append(flows, IF yearly_flows = <<>> THEN <<>> ELSE yearly_flows[1])

\* if yearly_flows is not None: all_flows.append(yearly_flows); None is <<>>
\* and a frame f is <<f>>
AppendYearly(flows, yearly_flows) ==
    IF yearly_flows # <<>> THEN Append(flows, yearly_flows[1]) ELSE flows

(***************************************************************************)
(* The tables the synthetic variant is explored on.  The 1990 columns give *)
(* every exporter the same entry and every importer the same entry, with   *)
(* which the allocation of 1990 comes to its end; a table may lack the     *)
(* column of a year.                                                       *)
(***************************************************************************)
SyntheticFirstYearEntries == {<<0, 1>>, <<MaxImporters + 1, 1>>}

SyntheticColumns ==
    BoundedColumns
        \cup { <<<<2, -2>>, <<3>>>>,        \* the final pass finds one importer
               <<<<3>>, <<2, -3>>>>,        \* the final pass draws importers
               <<<<Sentinel, 2>>, <<1, Sentinel>>>> }

SyntheticTables ==
    { << <<[i \in 1..Len(c[1]) |-> f[1]], c[1]>>,
         <<[i \in 1..Len(c[2]) |-> f[2]], c[2]>> >> :
        f \in SyntheticFirstYearEntries, c \in SyntheticColumns }

AllYears == {years[y] : y \in 1..Len(years)}

\* the columns of the export table and of the import table
ColumnChoices ==
    { <<AllYears, AllYears>>,
      <<AllYears \ {years[1]}, AllYears>>,
      <<AllYears, AllYears \ {years[2]}>> }

SyntheticInit ==
    /\ \E t \in SyntheticTables :
            /\ export_df = ReplaceSentinel(t[1])
            /\ import_df = ToNumeric(t[2])
    /\ \E c \in ColumnChoices :
            /\ export_columns = c[1]
            /\ import_columns = c[2]
    /\ remaining_export = <<>>
    /\ trade_flow_data = <<>>
    /\ Unset

\* lines 22-48: the test for the year's columns, then the two dicts of
\* remaining amounts and the empty record list
SyntheticStart ==
    /\ pc = "start"
    /\ IF years[yi] \notin export_columns \/ years[yi] \notin import_columns
       THEN /\ pc' = "y_none"
            /\ UNCHANGED <<remaining_exports, remaining_imports, trade_flows>>
       ELSE /\ remaining_exports' = SyntheticDict(export_df[yi])
            /\ remaining_imports' = SyntheticDict(import_df[yi])
            /\ trade_flows' = <<>>
            /\ pc' = "y_while"
    /\ UNCHANGED balancedVars
    /\ UNCHANGED simplifiedVars
    /\ UNCHANGED finalVars
    /\ UNCHANGED <<export_df, import_df, yi, export_data, import_data,
                   trade_matrix, ex, results, error_log, all_flows,
                   combined_flows, export_columns, import_columns,
                   active_exporters, active_importers, cur_exporter,
                   exporter_remaining, remaining, importers_list>>
    /\ UNCHANGED dashboardVars

\* lines 51-65 and 98-99: the test of the while loop, the two dicts of the
\* active countries, and the exporter with the most left; when the loop
\* ends the active dicts are those of lines 98-99
SyntheticWhile ==
    /\ pc = "y_while"
    /\ active_exporters' = Active(remaining_exports)
    /\ active_importers' = Active(remaining_imports)
    /\ IF /\ SumSeq(Values(remaining_exports)) > 0
          /\ SumSeq(Values(remaining_imports)) > 0
          /\ active_exporters' # <<>>
          /\ active_importers' # <<>>
       THEN /\ cur_exporter' = LargestExporter(active_exporters')
            /\ exporter_remaining' = Value(remaining_exports, cur_exporter')
            /\ pos' = 1
            /\ pc' = "y_for"
            /\ UNCHANGED ex
       ELSE /\ ex' = 1
            /\ pc' = "y_final"
            /\ UNCHANGED <<cur_exporter, exporter_remaining, pos>>
    /\ UNCHANGED simplifiedVars
    /\ UNCHANGED finalVars
    /\ UNCHANGED <<export_df, import_df, yi, export_data, import_data,
                   total_import, trade_matrix, exporter_totals, adjustment,
                   sorted_importers, results, error_log, all_flows, pass,
                   combined_flows, export_columns, import_columns,
                   remaining_exports, remaining_imports, trade_flows,
                   remaining, importers_list>>
    /\ UNCHANGED dashboardVars

\* lines 67-94: one importer of list(active_importers.items())
SyntheticFor ==
    /\ pc = "y_for"
    /\ IF pos > Len(active_importers)
       THEN /\ pc' = "y_while"
            /\ UNCHANGED <<pos, remaining_exports, remaining_imports,
                           exporter_remaining, trade_flows>>
       ELSE LET importer == active_importers[pos][1]
                importer_remaining == active_importers[pos][2]
                total_import_need == SumSeq(Values(active_importers))
                assigned_quantity_int ==
                    AssignedQuantityInt(exporter_remaining, importer_remaining,
                                        total_import_need)
            IN /\ pos' = pos + 1
               /\ UNCHANGED pc
               /\ IF exporter_remaining <= 0 \/ importer_remaining <= 0
                  THEN UNCHANGED <<remaining_exports, remaining_imports,
                                   exporter_remaining, trade_flows>>
                  ELSE IF assigned_quantity_int > 0
                  THEN /\ trade_flows' = Append(trade_flows,
                              FlowRow(cur_exporter, importer, years[yi],
                                      assigned_quantity_int))
                       /\ remaining_exports' =
                              SetValue(remaining_exports, cur_exporter,
                                  Value(remaining_exports, cur_exporter)
                                      - assigned_quantity_int)
                       /\ remaining_imports' =
                              SetValue(remaining_imports, importer,
                                  Value(remaining_imports, importer)
                                      - assigned_quantity_int)
                       /\ exporter_remaining' =
                              exporter_remaining - assigned_quantity_int
                  ELSE UNCHANGED <<remaining_exports, remaining_imports,
                                   exporter_remaining, trade_flows>>
    /\ UNCHANGED simplifiedVars
    /\ UNCHANGED finalVars
    /\ UNCHANGED <<export_df, import_df, yi, export_data, import_data,
                   total_import, trade_matrix, exporter_totals, ex, adjustment,
                   sorted_importers, results, error_log, all_flows, pass,
                   combined_flows, export_columns, import_columns,
                   active_exporters, active_importers, cur_exporter,
                   remaining, importers_list>>
    /\ UNCHANGED dashboardVars

\* lines 102-121: the next exporter of the final pass, and the search for a
\* single importer that can take all it has left
SyntheticFinal ==
    /\ pc = "y_final"
    /\ IF ex > Len(active_exporters)
       THEN /\ pc' = "y_return"
            /\ UNCHANGED <<ex, remaining, importers_list, active_importers,
                           remaining_imports, trade_flows>>
       ELSE LET exporter == active_exporters[ex][1]
                left == active_exporters[ex][2]
                list == Keys(active_importers)
                fits == {p \in 1..Len(list) :
                            left <= Value(remaining_imports, list[p])}
            IN /\ remaining' = left
               /\ IF left > 0 /\ active_importers # <<>>
                  THEN /\ importers_list' = list
                       /\ IF fits # {}
                          THEN LET p == CHOOSE q \in fits : \A o \in fits : q <= o
                                   importer == list[p]
                                   after ==
                                       Value(remaining_imports, importer) - left
                               IN /\ trade_flows' = Append(trade_flows,
                                         FlowRow(exporter, importer, years[yi],
                                                 left))
                                  /\ remaining_imports' =
                                         SetValue(remaining_imports, importer,
                                                  after)
                                  /\ active_importers' =
                                         IF after <= 0
                                         THEN Pop(active_importers, importer)
                                         ELSE active_importers
                                  /\ ex' = ex + 1
                                  /\ UNCHANGED pc
                          ELSE /\ pc' = "y_choice"
                               /\ UNCHANGED <<ex, active_importers,
                                              remaining_imports, trade_flows>>
                  ELSE /\ ex' = ex + 1
                       /\ UNCHANGED <<pc, importers_list, active_importers,
                                      remaining_imports, trade_flows>>
    /\ UNCHANGED balancedVars
    /\ UNCHANGED simplifiedVars
    /\ UNCHANGED finalVars
    /\ UNCHANGED <<export_df, import_df, yi, export_data, import_data,
                   trade_matrix, results, error_log, all_flows, combined_flows,
                   export_columns, import_columns, remaining_exports,
                   active_exporters, cur_exporter, exporter_remaining>>
    /\ UNCHANGED dashboardVars

\* lines 122-133: one turn of the while loop around random.choice
SyntheticChoice ==
    /\ pc = "y_choice"
    /\ IF remaining > 0 /\ importers_list # <<>>
       THEN \E p \in 1..Len(importers_list) :
                LET importer == importers_list[p]
                    quantity == Min(remaining,
                                    Value(remaining_imports, importer))
                    after == Value(remaining_imports, importer) - quantity
                IN IF quantity > 0
                   THEN /\ trade_flows' = Append(trade_flows,
                              FlowRow(active_exporters[ex][1], importer,
                                      years[yi], quantity))
                        /\ remaining' = remaining - quantity
                        /\ remaining_imports' =
                              SetValue(remaining_imports, importer, after)
                        /\ importers_list' =
                              IF after <= 0 THEN Remove(importers_list, importer)
                                            ELSE importers_list
                        /\ active_importers' =
                              IF after <= 0 THEN Pop(active_importers, importer)
                                            ELSE active_importers
                        /\ UNCHANGED <<ex, pc>>
                   ELSE UNCHANGED <<trade_flows, remaining, remaining_imports,
                                    importers_list, active_importers, ex, pc>>
       ELSE /\ ex' = ex + 1
            /\ pc' = "y_final"
            /\ UNCHANGED <<trade_flows, remaining, remaining_imports,
                           importers_list, active_importers>>
    /\ UNCHANGED balancedVars
    /\ UNCHANGED simplifiedVars
    /\ UNCHANGED finalVars
    /\ UNCHANGED <<export_df, import_df, yi, export_data, import_data,
                   trade_matrix, results, error_log, all_flows, combined_flows,
                   export_columns, import_columns, remaining_exports,
                   active_exporters, cur_exporter, exporter_remaining>>
    /\ UNCHANGED dashboardVars

\* lines 136-150: the frame of the records, and the return
SyntheticReturn ==
    /\ pc = "y_return"
    /\ results' = trade_flows
    /\ pc' = "y_returned"
    /\ UNCHANGED balancedVars
    /\ UNCHANGED simplifiedVars
    /\ UNCHANGED finalVars
    /\ UNCHANGED syntheticVars
    /\ UNCHANGED <<export_df, import_df, yi, export_data, import_data,
                   trade_matrix, ex, error_log, all_flows, combined_flows>>
    /\ UNCHANGED dashboardVars

\* lines 159-163: main appends what generate_trade_flows returned unless it
\* is None, and goes on to the next year
SyntheticYearLoop ==
    /\ pc \in {"y_none", "y_returned"}
    /\ LET yearly_flows == IF pc = "y_none" THEN <<>> ELSE <<results>>
       IN all_flows' = AppendYearly(all_flows, yearly_flows)
    /\ IF yi < Len(years)
       THEN yi' = yi + 1 /\ pc' = "start"
       ELSE yi' = yi /\ pc' = "finished"
    /\ UNCHANGED balancedVars
    /\ UNCHANGED simplifiedVars
    /\ UNCHANGED finalVars
    /\ UNCHANGED syntheticVars
    /\ UNCHANGED <<export_df, import_df, export_data, import_data,
                   trade_matrix, ex, results, error_log, combined_flows>>
    /\ UNCHANGED dashboardVars

SyntheticNext ==
    \/ SyntheticStart
    \/ SyntheticWhile
    \/ SyntheticFor
    \/ SyntheticFinal
    \/ SyntheticChoice
    \/ SyntheticReturn
    \/ SyntheticYearLoop

SyntheticSpec == SyntheticInit /\ [][SyntheticNext]_vars

\* the script runs on: no statement waits for anything
FairSyntheticSpec == SyntheticSpec /\ WF_vars(SyntheticNext)

(***************************************************************************)
(* coffee_dashboard_revised.py: the callback update_trade_flow, which      *)
(* builds the Sankey diagram of the trade flow tab from trade_flow_data.   *)
(* A country is its name.  A dropdown left empty gives None, which the     *)
(* tests of lines 1539, 1544 and 1555 treat as they treat "": None is "".  *)
(* The label of a link, a string built from both names, is left out.       *)
(***************************************************************************)
MAX_NODES == 15

\* df[df[column] == value]
RowsWhere(data, column, value) ==
    SelectSeq(data, LAMBDA row : row[column] = value)

\* df[column].unique().tolist(): the values in order of first appearance
Unique(data, column) ==
    LET first == {k \in 1..Len(data) :
                    \A j \in 1..(k - 1) : data[j][column] # data[k][column]}
        at == SelectSeq([k \in 1..Len(data) |-> k], LAMBDA k : k \in first)
    IN [p \in 1..Len(at) |-> data[at[p]][column]]

\* df.groupby(column)['Quantity'].sum()[name]
GroupSum(data, column, name) ==
    SumSeq([k \in 1..Len(data) |->
                IF data[k][column] = name THEN data[k].Quantity ELSE 0])

\* df.groupby(column)['Quantity'].sum().sort_values(ascending=False).index:
\* the names by descending sum; the sort is not a stable one, so names with
\* equal sums come in any order
SortedBySum(data, column) ==
    LET names == {data[k][column] : k \in 1..Len(data)}
        n == Cardinality(names)
    IN {order \in [1..n -> names] :
            /\ \A a, b \in 1..n : order[a] = order[b] => a = b
            /\ \A a \in 1..(n - 1) :
                    GroupSum(data, column, order[a])
                        >= GroupSum(data, column, order[a + 1])}

\* series.head(n)
head(list, n) == SubSeq(list, 1, Min(n, Len(list)))

InList(list, x) == \E p \in 1..Len(list) : list[p] = x

\* lines 1581-1588: for country in names: if country not in all_nodes:
\* all_nodes.append(country)
RECURSIVE AppendNew(_, _, _)
AppendNew(nodes, names, p) ==
    IF p > Len(names) THEN nodes
    ELSE AppendNew(IF InList(nodes, names[p]) THEN nodes
                   ELSE Append(nodes, names[p]),
                   names, p + 1)

\* lines 1578-1588
AllNodes(exporters, importers) ==
    AppendNew(AppendNew(<<>>, exporters, 1), importers, 1)

\* lines 1591: {node: i for i, node in enumerate(all_nodes)}[name]
NodeIndex(nodes, name) ==
    (CHOOSE p \in 1..Len(nodes) :
        nodes[p] = name /\ \A q \in (p + 1)..Len(nodes) : nodes[q] # name) - 1

\* lines 1594-1611: a link for every row whose two countries are nodes
LinkData(nodes, rows) ==
    LET kept == SelectSeq(rows, LAMBDA row : /\ InList(nodes, row.Exporter)
                                             /\ InList(nodes, row.Importer))
    IN [k \in 1..Len(kept) |->
            [source |-> NodeIndex(nodes, kept[k].Exporter),
             target |-> NodeIndex(nodes, kept[k].Importer),
             value |-> kept[k].Quantity]]

(***************************************************************************)
(* The flows files the dashboard is explored on, and the inputs of the     *)
(* callback: the year slider and the two dropdowns.                        *)
(***************************************************************************)
MaxRecords == 2

Countries == {"A", "B", "C"}

FlowFiles ==
    UNION {[1..n -> [Exporter : Countries, Importer : Countries,
                     Year : {1990}, Quantity : 1..MaxQty]] :
                n \in 0..MaxRecords}

SliderYears == {1990, 1991}

ExporterChoices == {"", "A"}

ImporterChoices == {"", "B"}

DashboardInit ==
    /\ trade_flow_data \in FlowFiles
    /\ export_df = <<>>
    /\ import_df = <<>>
    /\ export_columns = {}
    /\ import_columns = {}
    /\ remaining_export = <<>>
    /\ Unset

\* lines 1525-1688: one call of the callback
UpdateTradeFlow ==
    /\ \E selected_year \in SliderYears,
          selected_exporter \in ExporterChoices,
          selected_importer \in ImporterChoices :
        LET of_year == RowsWhere(trade_flow_data, "Year", selected_year)
            of_exporter ==
                IF selected_exporter # ""
                THEN RowsWhere(of_year, "Exporter", selected_exporter)
                ELSE of_year
            filtered_data ==
                IF selected_importer # ""
                THEN RowsWhere(of_exporter, "Importer", selected_importer)
                ELSE of_exporter
        IN /\ selected' = <<selected_year, selected_exporter, selected_importer>>
           /\ IF Len(filtered_data) > 0
              THEN /\ IF selected_exporter # "" \/ selected_importer # ""
                      THEN /\ exporter_names' = Unique(filtered_data, "Exporter")
                           /\ importer_names' = Unique(filtered_data, "Importer")
                           /\ all_nodes' = AllNodes(exporter_names', importer_names')
                           /\ link_data' = LinkData(all_nodes', filtered_data)
                      ELSE \E all_exporters \in SortedBySum(filtered_data, "Exporter"),
                              all_importers \in SortedBySum(filtered_data, "Importer") :
                            LET top_filtered_data ==
                                    SelectSeq(filtered_data, LAMBDA row :
                                        /\ InList(head(all_exporters, MAX_NODES),
                                                  row.Exporter)
                                        /\ InList(head(all_importers, MAX_NODES),
                                                  row.Importer))
                            IN /\ exporter_names' = head(all_exporters, MAX_NODES)
                               /\ importer_names' = head(all_importers, MAX_NODES)
                               /\ all_nodes' =
                                     AllNodes(exporter_names', importer_names')
                               /\ link_data' =
                                     LinkData(all_nodes', top_filtered_data)
              ELSE /\ exporter_names' = <<>>
                   /\ importer_names' = <<>>
                   /\ all_nodes' = <<>>
                   /\ link_data' = <<>>
    /\ UNCHANGED trade_flow_data
    /\ UNCHANGED balancedVars
    /\ UNCHANGED simplifiedVars
    /\ UNCHANGED finalVars
    /\ UNCHANGED syntheticVars
    /\ UNCHANGED <<export_df, import_df, yi, pc, export_data, import_data,
                   trade_matrix, ex, results, error_log, all_flows,
                   combined_flows>>

DashboardNext == UpdateTradeFlow

DashboardSpec == DashboardInit /\ [][DashboardNext]_vars

(***************************************************************************)
(* Properties of the balanced variant.                                     *)
(***************************************************************************)
\* generate_data_for_year has built its records (it is at, or past, return)
Emitted == pc \in {"verify", "returned"}

Exporters == {export_data[k][1] : k \in 1..Len(export_data)}

Importers == {import_data[k][1] : k \in 1..Len(import_data)}

TotalEmitted == SumSeq([k \in 1..Len(results) |-> results[k].Quantity])

RowSumsExact == \A e \in Exporters : ExportSum(results, e) = Value(export_data, e)

ColSumsExact == \A i \in Importers : ImportSum(results, i) = Value(import_data, i)

\* Phase 2 changed the matrix Phase 1 had computed
Corrected ==
    trade_matrix # Phase1Matrix(export_data, import_data, total_import)

\* C1: when the demand dict is not empty, the records emitted for a year sum,
\* for every exporter e, exactly to supply[e], and the verification of lines
\* 116-123 reports no exporter.
C1_ExportRowSumsExact ==
    (Emitted /\ import_data # <<>>) =>
        /\ RowSumsExact
        /\ pc = "returned" => error_log = <<>>

\* two exporters, a non-empty demand, and a row that Phase 2 had to correct
C1_Witness ==
    /\ pc = "returned"
    /\ Len(export_data) = 2
    /\ Len(import_data) = 2
    /\ Corrected
    /\ RowSumsExact

\* C2: when total supply equals total demand, the records emitted for a year
\* sum, for every importer i, exactly to demand[i].
C2_BalancedColumnSumsExact ==
    (Emitted /\ TotalExport = total_import) => ColSumsExact

\* C3: no cell of the trade matrix is ever negative, every emitted record has
\* a quantity >= 1, and the cells equal to 0 have no record.
C3_QuantitiesPositive ==
    /\ \A e \in DOMAIN trade_matrix : \A i \in DOMAIN trade_matrix[e] :
            trade_matrix[e][i] >= 0
    /\ \A k \in 1..Len(results) : results[k].Quantity >= 1
    /\ Emitted =>
            \A e \in Exporters : \A i \in Importers :
                trade_matrix[e][i] = 0 =>
                    ~ \E k \in 1..Len(results) :
                          results[k].Exporter = e /\ results[k].Importer = i

\* a corrected matrix with a cell equal to 0 and a cell above 0, emitted
C3_Witness ==
    /\ pc = "returned"
    /\ Corrected
    /\ \E e \in Exporters : \E i \in Importers : trade_matrix[e][i] = 0
    /\ Len(results) >= 1

\* C4: with an empty demand dict and a non-empty supply dict,
\* generate_data_for_year returns, and returns no record.
C4_EmptyDemandReturnsEmpty ==
    [](( pc = "phase1" /\ import_data = <<>> /\ export_data # <<>>) =>
            <>(pc = "returned" /\ results = <<>>))

\* C5: with an empty supply dict generate_data_for_year returns, it returns no
\* record, and the year loop leaves the combined output as it was.
C5_EmptySupplyReturnsEmpty ==
    /\ [](( pc = "phase1" /\ export_data = <<>>) =>
            <>(pc = "returned" /\ results = <<>>))
    /\ [][(pc = "returned" /\ export_data = <<>>) => all_flows' = all_flows]_vars

\* the 1991 supply is empty, the demand is not, and the year loop has passed
\* 1991 with the frame of 1990 as the whole combined output
C5_Witness ==
    /\ pc = "finished"
    /\ export_data = <<>>
    /\ import_data # <<>>
    /\ results = <<>>
    /\ Len(all_flows) = 1

\* C6: when total supply differs from total demand, the emitted quantities
\* total to the total supply, and every exporter's row sum is exact.
C6_ImbalancedTotalIsSupply ==
    (Emitted /\ TotalExport # total_import) =>
        /\ TotalEmitted = TotalExport
        /\ RowSumsExact

\* Scenario C: supply {X: 100}, demand {P: 40, Q: 40}, records totalling 100
C6_Witness ==
    /\ pc = "returned"
    /\ Values(export_data) = <<100>>
    /\ Values(import_data) = <<40, 40>>
    /\ TotalEmitted = 100

\* C7: with a single exporter whose supply equals total demand, every importer
\* receives exactly demand[i], in at most one record.
C7_SingleExporterExactSplit ==
    (Emitted /\ Len(export_data) = 1 /\ TotalExport = total_import) =>
        /\ ColSumsExact
        /\ \A i \in Importers :
              Cardinality({k \in 1..Len(results) : results[k].Importer = i}) <= 1

\* C9: Phase 2 applied to a matrix it has already corrected changes no cell.
C9_Phase2Idempotent ==
    [][(pass >= 2 /\ pc \in {"totals", "exporter", "while", "for"}) =>
            trade_matrix' = trade_matrix]_vars

\* the second application has run to its end on a matrix the first one changed
C9_Witness ==
    /\ pass = 2
    /\ pc = "emit"
    /\ Corrected

\* the entry of country c in a column is a number above 0
PositiveEntry(column, c) == column[c] # NaN /\ column[c][1] > 0

\* C16: the supply and demand dicts of a year hold exactly the countries whose
\* table entry is present and above 0, every value in them is above 0, and
\* every record of the year names an exporter and an importer whose table
\* entries are present and above 0.
C16_NonPositiveEntriesDropped ==
    pc # "start" =>
        /\ \A k \in 1..Len(export_data) : export_data[k][2] > 0
        /\ \A k \in 1..Len(import_data) : import_data[k][2] > 0
        /\ Exporters = {c \in 1..Len(export_df[yi]) :
                            PositiveEntry(export_df[yi], c)}
        /\ Importers = {c \in 1..Len(import_df[yi]) :
                            PositiveEntry(import_df[yi], c)}
        /\ \A k \in 1..Len(results) :
              /\ PositiveEntry(export_df[yi], results[k].Exporter)
              /\ PositiveEntry(import_df[yi], results[k].Importer)

\* a year whose export column has a NaN and a 0, whose import column has the
\* sentinel and a negative entry, and for which records were emitted
C16_Witness ==
    /\ pc = "returned"
    /\ \E c \in 1..Len(export_df[yi]) : export_df[yi][c] = NaN
    /\ \E c \in 1..Len(export_df[yi]) : export_df[yi][c] = <<0>>
    /\ \E c \in 1..Len(import_df[yi]) : import_df[yi][c] = <<Sentinel>>
    /\ \E c \in 1..Len(import_df[yi]) :
            import_df[yi][c] # NaN /\ import_df[yi][c][1] < 0
    /\ results # <<>>

\* supply[e] - sum_i alloc[e][i]
Shortfall(e) == Value(export_data, e) - RowSum(trade_matrix, import_data, e)

\* C18: with a non-empty demand dict, after Phase 1 every exporter's shortfall
\* lies between 0 and the number of importers minus 1, and the adjustment of
\* Phase 2 is never negative (the decrement branch is never taken).
C18_ShortfallBelowImporterCount ==
    /\ (pc = "totals" /\ import_data # <<>>) =>
            \A e \in Exporters :
                Shortfall(e) >= 0 /\ Shortfall(e) <= Len(import_data) - 1
    /\ (pc \in {"while", "for"} /\ import_data # <<>>) => adjustment >= 0

\* floor(supply[e] * demand[i] / total_demand)
FloorAllocation(e, i) ==
    (Value(export_data, e) * Value(import_data, i)) \div total_import

\* C19: with a non-empty demand dict, the final cells of an exporter are its
\* floor allocations, plus one unit for each of the first k importers in the
\* order of descending floor allocation (ties in country order), where k is
\* the exporter's shortfall against the floor allocations; so every final
\* cell is the floor allocation or the floor allocation plus one.
C19_OneUnitToFirstK ==
    (Emitted /\ import_data # <<>>) =>
        \A e \in Exporters :
            LET floors == [i \in Importers |-> FloorAllocation(e, i)]
                order == SortedByCell(Keys(import_data), floors)
                k == Value(export_data, e)
                        - SumSeq([p \in 1..Len(order) |-> floors[order[p]]])
            IN \A p \in 1..Len(order) :
                    trade_matrix[e][order[p]] =
                        floors[order[p]] + (IF p <= k THEN 1 ELSE 0)

\* the records of the years from y on, in ascending year order
RECURSIVE RecordsFrom(_)
RecordsFrom(y) ==
    IF y > Len(years) THEN <<>> ELSE YearRecords(y) \o RecordsFrom(y + 1)

\* C17: the records returned for a year are those the allocation produces
\* from that year's two columns alone, whatever the earlier years were, and
\* the combined output is the concatenation of the years' records in
\* ascending year order.
C17_YearsIndependent ==
    /\ pc = "returned" => results = YearRecords(yi)
    /\ pc = "combined" =>
            combined_flows = RecordsFrom(1)

\* both years returned records, and the combined output has been built
C17_Witness ==
    /\ pc = "combined"
    /\ Len(all_flows) = 2
    /\ \E k \in 1..Len(combined_flows) : combined_flows[k].Year = years[1]
    /\ \E k \in 1..Len(combined_flows) : combined_flows[k].Year = years[2]
    /\ Corrected

Abs(n) == IF n >= 0 THEN n ELSE -n

\* total_demand times the distance of importer i's received sum from its
\* proportional share of the total supply
Deviation(i) ==
    Abs(total_import * ImportSum(results, i)
            - TotalExport * Value(import_data, i))

\* C29: for non-empty supply and demand dicts, every importer's received sum
\* is less than the number of exporters away from its proportional share of
\* the total supply.
C29_DeviationBelowExporterCount ==
    (Emitted /\ export_data # <<>> /\ import_data # <<>>) =>
        \A i \in Importers : Deviation(i) < Len(export_data) * total_import

\* C29, amended: for non-empty supply and demand dicts, every importer's
\* received sum is at most the number of exporters away from its
\* proportional share of the total supply.
C29_DeviationAtMostExporterCount ==
    (Emitted /\ export_data # <<>> /\ import_data # <<>>) =>
        \A i \in Importers : Deviation(i) <= Len(export_data) * total_import

\* supply 2 against demands 2, 1, 1: the first importer's share is 1 and it
\* receives 2, a whole unit more
C29_Witness ==
    /\ pc = "returned"
    /\ Values(export_data) = <<2>>
    /\ Values(import_data) = <<2, 1, 1>>
    /\ \E i \in Importers : Deviation(i) = Len(export_data) * total_import

\* the demand dict with every value multiplied by k
Scaled(imp, k) == [j \in 1..Len(imp) |-> <<imp[j][1], k * imp[j][2]>>]

\* C30: the records returned for a year are those the allocation produces
\* from the same supply dict and the demand dict with every value multiplied
\* by any positive integer k.
C30_DemandScaleInvariant ==
    pc = "returned" =>
        \A k \in 1..MaxScale :
            results = FlowRecords(
                        AdjustedMatrix(export_data, Scaled(import_data, k)),
                        export_data, Scaled(import_data, k), years[yi])

\* two exporters, totals that differ, a row Phase 2 corrected, and records
C30_Witness ==
    /\ pc = "returned"
    /\ Len(export_data) = 2
    /\ Len(import_data) = 2
    /\ TotalExport # total_import
    /\ Corrected
    /\ Len(results) >= 3

(***************************************************************************)
(* Properties of the simplified variant.                                   *)
(***************************************************************************)
\* C10: when the demand dict is not empty, after the seeding, the proportional
\* pass and the leftover pass every exporter's row of the trade matrix sums
\* exactly to supply[e], and the export verification of lines 136-144 warns
\* about no exporter.
C10_SimplifiedRowSumsExact ==
    (pc \in {"s_emit", "s_verify", "s_returned"} /\ import_data # <<>>) =>
        /\ \A e \in Exporters :
              RowSum(trade_matrix, import_data, e) = Value(export_data, e)
        /\ pc = "s_returned" => error_log.export = <<>>

(***************************************************************************)
(* Properties of the final variant.                                        *)
(***************************************************************************)
\* the main allocation loop of lines 53-110 has ended
FinalAllocated == pc \in {"f_verify", "f_check", "f_returned"}

TotalImport == SumSeq(Values(import_data))

\* C11: with a non-empty demand dict, whatever the random draws, the records
\* of every exporter the main loop has finished sum exactly to its supply,
\* and those of the exporter in progress to its supply less what is left to
\* place; so when the loop has ended every exporter's records sum to its supply.
C11_FinalRowSumsExact ==
    /\ (pc \in {"f_exporter", "f_while", "f_for"} /\ import_data # <<>>) =>
            \A k \in 1..Len(export_data) :
                ExportSum(results, export_data[k][1]) =
                    IF k < ex THEN export_data[k][2]
                    ELSE IF k = ex /\ pc # "f_exporter"
                         THEN export_data[k][2] - remaining_export
                         ELSE 0
    /\ (FinalAllocated /\ import_data # <<>>) => RowSumsExact

\* two exporters, and more records than exporters: a supply went out in chunks
C11_Witness ==
    /\ pc = "f_returned"
    /\ Len(export_data) = 2
    /\ Len(import_data) = 2
    /\ Len(results) >= 3
    /\ RowSumsExact

\* what the records of the allocation branch (lines 99-104) carry from e to i
AllocatedTo(e, i) ==
    SumSeq([k \in 1..Len(results) |->
                IF /\ results[k].Exporter = e
                   /\ results[k].Importer = i
                   /\ k \notin overflow
                THEN results[k].Quantity ELSE 0])

OverflowOf(e) == {k \in overflow : results[k].Exporter = e}

\* C13: when the main loop has ended, an exporter whose supply exceeds the
\* total demand has records summing to its supply: every importer has
\* received exactly its demand from it, followed by exactly one overflow
\* record, which carries the supply less the total demand; and an overflow
\* record is appended only when no importer has capacity left for the exporter.
C13_OverflowAfterFullDemand ==
    /\ []((FinalAllocated /\ import_data # <<>>) =>
            \A e \in Exporters :
                Value(export_data, e) > TotalImport =>
                    /\ ExportSum(results, e) = Value(export_data, e)
                    /\ \A i \in Importers :
                            AllocatedTo(e, i) = Value(import_data, i)
                    /\ Cardinality(OverflowOf(e)) = 1
                    /\ \A k \in OverflowOf(e) :
                          /\ results[k].Quantity =
                                Value(export_data, e) - TotalImport
                          /\ \A j \in 1..Len(results) :
                                results[j].Exporter = e => j <= k)
    /\ [][overflow' \ overflow # {} =>
                \A i \in Importers : remaining_import[i] <= 0]_vars

\* supply 4 against demands 2 and 1: the overflow record carries 1
C13_Witness ==
    /\ pc = "f_returned"
    /\ Values(export_data) = <<4>>
    /\ Values(import_data) = <<2, 1>>
    /\ overflow # {}
    /\ \A k \in overflow : results[k].Quantity = 1

\* C15: when total supply differs from total demand, import_data is, from
\* the moment it is built to the return, the dict built from the year's
\* import column, and no step of the allocation changes it.
C15_ImportDataUnmodified ==
    /\ [](( pc \in {"f_exporter", "f_while", "f_for", "f_verify", "f_check",
                    "f_returned"}
            /\ TotalExport # TotalImport) =>
                import_data = DictOf(import_df[yi]))
    /\ [][( pc \in {"f_exporter", "f_while", "f_for", "f_verify", "f_check"}
            /\ TotalExport # TotalImport) =>
                import_data' = import_data]_vars

\* the totals differ, the scaled dict differs from the demand dict, and the
\* last exporter's copy of the capacities has been drawn on
C15_Witness ==
    /\ pc = "f_returned"
    /\ TotalExport # TotalImport
    /\ import_data_scaled # import_data
    /\ results # <<>>
    /\ \E i \in Importers : remaining_import[i] < Value(import_data, i)

\* C21: the distribution loop of an exporter ends, whatever the random draws:
\* a pass that finds no importer with capacity emits the overflow record,
\* every other pass starts by assigning at least one unit, no step of a pass
\* gives units back, the loop is left with remaining_export = 0, and once
\* entered it is left.
C21_DistributionLoopTerminates ==
    /\ [][(pc = "f_while" /\ remaining_export > 0) =>
            \/ overflow' # overflow /\ Len(results') = Len(results) + 1
            \/ pc' = "f_for" /\ pos' = 1]_vars
    /\ [][(pc = "f_for" /\ pos = 1) =>
            /\ remaining_export' < remaining_export
            /\ Len(results') = Len(results) + 1]_vars
    /\ [][(pc = "f_for") => remaining_export' <= remaining_export]_vars
    /\ [][(pc = "f_while" /\ pc' = "f_exporter") => remaining_export' = 0]_vars
    /\ (pc = "f_while") ~> (pc = "f_exporter")

\* the loop of the first exporter has ended after more than one pass: two of
\* its chunks went to the same importer
C21_Witness ==
    /\ pc = "f_exporter"
    /\ ex = 2
    /\ remaining_export = 0
    /\ \E j, k \in 1..Len(results) :
            /\ j < k
            /\ j \notin overflow
            /\ k \notin overflow
            /\ results[j].Importer = results[k].Importer

\* C22: when the main loop has ended without any overflow record, every
\* importer has received at most its demand from all exporters together.
C22_ImportWithinDemandWithoutOverflow ==
    (FinalAllocated /\ overflow = {}) =>
        \A i \in Importers : ImportSum(results, i) <= Value(import_data, i)

\* C23: the records of a year hold every (exporter, importer) pair at most
\* once.
C23_PairsUnique ==
    FinalAllocated =>
        \A j, k \in 1..Len(results) :
            ( /\ results[j].Exporter = results[k].Exporter
              /\ results[j].Importer = results[k].Importer ) => j = k

\* C25: every chunk of the distribution loop is at least 1 and at most what
\* the exporter has left and what the importer can still take at that
\* moment; so what is left of the supply and of every capacity is never
\* negative, and every record, the overflow record included, carries at
\* least one unit.
C25_ChunksWithinBounds ==
    /\ [][(pc = "f_for" /\ Len(results') = Len(results) + 1) =>
            LET rec == results'[Len(results')]
            IN /\ 1 <= rec.Quantity
               /\ rec.Quantity <= remaining_export
               /\ rec.Quantity <= remaining_import[rec.Importer]
               /\ remaining_export' = remaining_export - rec.Quantity
               /\ remaining_import'[rec.Importer] =
                        remaining_import[rec.Importer] - rec.Quantity]_vars
    /\ []((pc \in {"f_while", "f_for"}) =>
            /\ remaining_export >= 0
            /\ \A i \in Importers : remaining_import[i] >= 0)
    /\ []((pc \in {"f_exporter", "f_while", "f_for", "f_verify"}) =>
            \A k \in 1..Len(results) : results[k].Quantity >= 1)

\* a chunk smaller than both limits has been assigned, and the exporter went
\* on to a second importer
C25_Witness ==
    /\ pc = "f_for"
    /\ pos = 2
    /\ remaining_export >= 1
    /\ results # <<>>
    /\ LET rec == results[Len(results)]
       IN /\ rec.Exporter = export_data[ex][1]
          /\ remaining_import[rec.Importer] >= 1

\* C28: the verification after the allocation changes nothing in a non-empty
\* frame: when it starts going over the exporters none is without records
\* or off its supply, and no step of it appends a row or changes a quantity.
C28_VerifyIsNoOp ==
    /\ [](pc = "f_check" => Mismatched(results, export_data) = {})
    /\ [][(pc \in {"f_verify", "f_check"}) => results' = results]_vars

\* two exporters checked, one of them placed in several chunks
C28_Witness ==
    /\ pc = "f_check"
    /\ ex > Len(export_data)
    /\ Len(export_data) = 2
    /\ Len(results) >= 3

(***************************************************************************)
(* Properties of the synthetic variant.                                    *)
(***************************************************************************)
\* the supply and demand dicts of the year as generate_trade_flows reads them
Supply == SyntheticDict(export_df[yi])

Demand == SyntheticDict(import_df[yi])

\* both dicts are non-empty and hold positive integers only
PositiveVectors ==
    /\ Supply # <<>>
    /\ Demand # <<>>
    /\ \A k \in 1..Len(Supply) : Supply[k][2] > 0
    /\ \A k \in 1..Len(Demand) : Demand[k][2] > 0

\* C12: when generate_trade_flows has returned for positive-integer supply
\* and demand dicts, the quantities of every exporter's records sum exactly
\* to its supply.
C12_SyntheticRowSumsExact ==
    (pc = "y_returned" /\ PositiveVectors) =>
        \A k \in 1..Len(Supply) :
            ExportSum(results, Supply[k][1]) = Supply[k][2]

\* the year's column is missing from the export or from the import table
YearMissing ==
    years[yi] \notin export_columns \/ years[yi] \notin import_columns

C20_MainLoopTerminates ==
    /\ []((pc = "y_for" /\ pos > Len(active_importers) /\ PositiveVectors) =>
            Value(remaining_exports, cur_exporter)
                < Value(active_exporters, cur_exporter))
    /\ [](( pc = "y_while" /\ PositiveVectors) => <>(pc = "y_final"))

\* C26: for positive-integer supply and demand dicts, in every state of the
\* main loop no exporter and no importer has a negative amount left, and the
\* records emitted so far sum, for every exporter and for every importer, to
\* its amount less what it has left, hence to at most its amount.
C26_RemainingNeverNegative ==
    (pc \in {"y_while", "y_for"} /\ PositiveVectors) =>
        /\ \A k \in 1..Len(Supply) :
                /\ remaining_exports[k][2] >= 0
                /\ ExportSum(trade_flows, Supply[k][1])
                        = Supply[k][2] - remaining_exports[k][2]
        /\ \A k \in 1..Len(Demand) :
                /\ remaining_imports[k][2] >= 0
                /\ ImportSum(trade_flows, Demand[k][1])
                        = Demand[k][2] - remaining_imports[k][2]
        /\ exporter_remaining >= 0

\* inside the loop an importer has been filled up while the exporter of the
\* iteration still has units to place
C26_Witness ==
    /\ pc = "y_for"
    /\ PositiveVectors
    /\ trade_flows # <<>>
    /\ exporter_remaining > 0
    /\ \E k \in 1..Len(remaining_imports) : remaining_imports[k][2] = 0

\* both dicts hold non-negative integers only
NonNegativeVectors ==
    /\ \A k \in 1..Len(Supply) : Supply[k][2] >= 0
    /\ \A k \in 1..Len(Demand) : Demand[k][2] >= 0

C24_SankeySidesDisjoint ==
    /\ \A k \in 1..Len(link_data) :
            /\ link_data[k].source < Len(exporter_names)
            /\ link_data[k].target >= Len(exporter_names)
    /\ \A p \in 1..Len(all_nodes) :
            p - 1 < Len(exporter_names) => InList(exporter_names, all_nodes[p])

====
